---- MODULE Spec2Model ----
(***************************************************************************)
(* Model of Backend/app.py: the /api/query pipeline of MedDocAssistant.    *)
(*                                                                         *)
(* A Python string is a sequence of text units (<<>> is the empty string); *)
(* symptom texts and abstracts are made of one-character units, so Len is  *)
(* len() and SubSeq is slicing; a character that has no string escape is   *)
(* the unit named by its code point, "U+00A0".  Python's None-or-value is  *)
(* a sequence of at most one element: None == <<>>, Some(x) == <<x>>.      *)
(***************************************************************************)
EXTENDS Integers, Sequences, FiniteSets, TLC

VARIABLES
    ENABLE_EMBEDDINGS,  \* os.environ["ENABLE_EMBEDDINGS"] == "1"
    EMB_MODEL,          \* module global: None or Some("model")
    EMB_LOADING,        \* module global _EMB_LOADING
    pc,                 \* position of each request's coroutine
    req,                \* per request: None or Some(req.symptoms)
    loc,                \* per request: the locals of query_literature
    running,            \* the coroutine the event loop is executing, or 0
    loadAttempts,       \* history: number of SentenceTransformer(...) calls
    loadFailed,         \* history: some load has raised
    hitIn,              \* the hit the loop body is given: None or Some(hit)
    matchOut            \* the match record built from it: <<>> or <<match>>

vars == <<ENABLE_EMBEDDINGS, EMB_MODEL, EMB_LOADING, pc, req, loc, running,
          loadAttempts, loadFailed, hitIn, matchOut>>

pipelineVars == <<ENABLE_EMBEDDINGS, EMB_MODEL, EMB_LOADING, pc, req, loc,
                  running, loadAttempts, loadFailed>>

mapVars == <<hitIn, matchOut>>

(***************************************************************************)
(* Bounds                                                                  *)
(***************************************************************************)
MaxRequests == 2     \* requests served by the process
MaxHits == 2         \* hits in one upstream result list
Margin == 6          \* abstract lengths within Margin of 0 and of SnippetLen

Requests == 1..MaxRequests

None == <<>>
Some(x) == <<x>>

(***************************************************************************)
(* Strings                                                                 *)
(***************************************************************************)
\* the characters str.strip() removes: those for which str.isspace() holds
Whitespace ==
    {"\t", "\n", "U+000B", "\f", "\r", "U+001C", "U+001D", "U+001E", "U+001F", " ",
     "U+0085", "U+00A0", "U+1680", "U+2000", "U+2001", "U+2002", "U+2003",
     "U+2004", "U+2005", "U+2006", "U+2007", "U+2008", "U+2009", "U+200A",
     "U+2028", "U+2029", "U+202F", "U+205F", "U+3000"}

RECURSIVE SeqsUpTo(_, _)
SeqsUpTo(S, n) ==
    IF n = 0 THEN {<<>>}
    ELSE LET shorter == SeqsUpTo(S, n - 1)
         IN  shorter \cup {Append(s, x) : s \in shorter, x \in S}

\* the texts a request can carry in req.symptoms
BlankTexts ==
    {<<>>, <<" ">>, <<"\t">>, <<"\n", " ">>, <<" ", "\t", "\n">>, <<"\r">>,
     <<" ", "\f", "\r">>, <<"U+00A0", "U+2003">>, <<"U+000B", "U+0085", "U+3000">>}
WordTexts ==
    {<<"f">>, <<"\t", "f">>, <<" ", "f", " ", "c", "\n">>, <<"f", " ", "c">>,
     <<"f", "\r", "\n">>, <<"\r", "f">>, <<"U+00A0", "f", "U+2028">>}
SymptomTexts == BlankTexts \cup WordTexts

RECURSIVE LStrip(_)
LStrip(s) ==
    IF s # <<>> /\ Head(s) \in Whitespace THEN LStrip(Tail(s)) ELSE s

RECURSIVE RStrip(_)
RStrip(s) ==
    IF s # <<>> /\ s[Len(s)] \in Whitespace
    THEN RStrip(SubSeq(s, 1, Len(s) - 1))
    ELSE s

RECURSIVE LStripSpaces(_)
LStripSpaces(s) ==
    IF s # <<>> /\ Head(s) = " " THEN LStripSpaces(Tail(s)) ELSE s

RECURSIVE RStripSpaces(_)
RStripSpaces(s) ==
    IF s # <<>> /\ s[Len(s)] = " "
    THEN RStripSpaces(SubSeq(s, 1, Len(s) - 1))
    ELSE s

\* variant: strip(" "), which removes spaces only
StripSpacesOnly(s) == RStripSpaces(LStripSpaces(s))

Strip(s) == RStrip(LStrip(s))

\* x or "" (None and the empty string are both falsy)
OrEmpty(o) == IF o = None THEN <<>> ELSE o[1]

\* truthiness of a None-or-string value
Truthy(o) == o # None /\ o[1] # <<>>

\* how an f-string renders a None-or-string value
Format(o) == IF o = None THEN <<"None">> ELSE o[1]

(***************************************************************************)
(* Hit mapping (the body of the for loop over the result list)             *)
(***************************************************************************)
SnippetLen == 400

\* variant: the marker is appended from 400 characters on
SnippetMarksAtLimit(abstract) ==
    SubSeq(abstract, 1, IF Len(abstract) < 400 THEN Len(abstract) ELSE 400)
        \o (IF Len(abstract) >= 400 THEN <<".", ".", ".">> ELSE <<>>)

Snippet(abstract) ==
    SubSeq(abstract, 1, IF Len(abstract) < SnippetLen THEN Len(abstract) ELSE SnippetLen)
        \o (IF Len(abstract) > SnippetLen THEN <<".", ".", ".">> ELSE <<>>)

HitUrl(hit) ==
    IF Truthy(hit.source)
    THEN hit.source[1]
    ELSE <<"https://europepmc.org/article/pmc/">>
             \o Format(IF Truthy(hit.pmcid) THEN hit.pmcid ELSE hit.id)

MatchRecord(hit) ==
    LET abstract == OrEmpty(hit.abstractText)
    IN  [title    |-> hit.title,
         abstract |-> abstract,
         snippet  |-> Snippet(abstract),
         journal  |-> OrEmpty(hit.journalTitle),
         year     |-> OrEmpty(hit.pubYear),
         source   |-> <<"EuropePMC">>,
         url      |-> HitUrl(hit)]

\* abstract or title or ""
RankText(hit) ==
    IF Truthy(hit.abstractText) THEN hit.abstractText[1]
    ELSE IF Truthy(hit.title) THEN hit.title[1]
    ELSE <<>>

(***************************************************************************)
(* Upstream responses                                                      *)
(***************************************************************************)
NullHit ==
    [title |-> None, abstractText |-> None, journalTitle |-> None,
     pubYear |-> None, pmcid |-> None, id |-> None, source |-> None]

HitFull ==
    [title |-> Some(<<"T1">>), abstractText |-> Some(<<"a", "b">>),
     journalTitle |-> Some(<<"J1">>), pubYear |-> Some(<<"2020">>),
     pmcid |-> Some(<<"PMC1">>), id |-> Some(<<"1">>), source |-> Some(<<"MED">>)]

HitBare == [NullHit EXCEPT !.id = Some(<<"2">>)]

HitSet == {HitFull, HitBare}

\* one element of a JSON array (or one character of a JSON string)
MapItem(hit) == [isMap |-> TRUE, hit |-> hit]
ScalarItem == [isMap |-> FALSE, hit |-> NullHit]

\* the value under "result": state is absent, null, number, string or list
ResultValue(state, items) == [state |-> state, items |-> items]
\* the value under "resultList": state is absent, null, string or map
ResultListValue(state, result) == [state |-> state, result |-> result]
\* the decoded body of a 2xx response
Body(isMap, resultList) == [isMap |-> isMap, resultList |-> resultList]

NoResult == ResultValue("absent", <<>>)
NoResultList == ResultListValue("absent", NoResult)

HitListBody(hits) ==
    Body(TRUE, ResultListValue("map",
        ResultValue("list", [i \in 1..Len(hits) |-> MapItem(hits[i])])))

WellFormedBodies == {HitListBody(hits) : hits \in SeqsUpTo(HitSet, MaxHits)}

MalformedBodies ==
    { Body(FALSE, NoResultList),                                   \* body is a list
      Body(TRUE, NoResultList),                                    \* no resultList
      Body(TRUE, ResultListValue("null", NoResult)),
      Body(TRUE, ResultListValue("string", NoResult)),
      Body(TRUE, ResultListValue("map", NoResult)),                \* no result
      Body(TRUE, ResultListValue("map", ResultValue("null", <<>>))),
      Body(TRUE, ResultListValue("map", ResultValue("number", <<>>))),
      Body(TRUE, ResultListValue("map", ResultValue("string", <<>>))),
      Body(TRUE, ResultListValue("map", ResultValue("string", <<ScalarItem>>))),
      Body(TRUE, ResultListValue("map", ResultValue("list", <<ScalarItem>>))),
      Body(TRUE, ResultListValue("map",
          ResultValue("list", <<MapItem(HitFull), ScalarItem>>))) }

Bodies == WellFormedBodies \cup MalformedBodies

\* what fetch_europepmc can raise
SearchFailures == {"ReadTimeout", "ConnectError", "HTTPStatusError", "JSONDecodeError"}

\* str(e)
Message(e) == <<"upstream: ", e>>

(***************************************************************************)
(* Parsing the body: data.get("resultList", {}).get("result", []) and the  *)
(* loop over it.  ok = FALSE is an exception raised outside any try block. *)
(***************************************************************************)
Raised == [ok |-> FALSE, results |-> <<>>, abstracts |-> <<>>]

RECURSIVE ParseItems(_, _, _)
ParseItems(items, results, abstracts) ==
    IF items = <<>> THEN [ok |-> TRUE, results |-> results, abstracts |-> abstracts]
    ELSE IF ~Head(items).isMap THEN Raised             \* hit.get: AttributeError
    ELSE ParseItems(Tail(items),
                    Append(results, MatchRecord(Head(items).hit)),
                    Append(abstracts, RankText(Head(items).hit)))

ParseBody(data) ==
    IF ~data.isMap THEN Raised                                     \* data.get
    ELSE IF data.resultList.state = "absent" THEN ParseItems(<<>>, <<>>, <<>>)
    ELSE IF data.resultList.state # "map" THEN Raised              \* .get("result")
    ELSE IF data.resultList.result.state = "absent" THEN ParseItems(<<>>, <<>>, <<>>)
    ELSE IF data.resultList.result.state \in {"null", "number"} THEN Raised  \* for ... in
    ELSE ParseItems(data.resultList.result.items, <<>>, <<>>)

(***************************************************************************)
(* Embedding model and ranking                                             *)
(***************************************************************************)
\* vectors model.encode can return for the query and for a document
QueryEmbeddings == {<<1, 0>>, <<1, 1>>, <<0, 0>>}
DocEmbeddings == {<<0, 0>>, <<1, 0>>, <<-1, 1>>}

RECURSIVE Dot(_, _)
Dot(a, b) == IF a = <<>> THEN 0 ELSE Head(a) * Head(b) + Dot(Tail(a), Tail(b))

\* np.dot(q, e) / (norm(q) * norm(e) + 1e-10), kept exactly: the score is
\* dot / (sqrt(sq) + 1e-10), sq being the square of norm(q) * norm(e)
Cosine(q, e) == [dot |-> Dot(q, e), sq |-> Dot(q, q) * Dot(e, e)]

\* a > b as numbers.  Two scores of the same sign compare as their squares
\* dot^2 / sq; when these are equal the 1e-10 of the denominator decides, and
\* the score of the greater dot is the greater one.
ScoreGreater(a, b) ==
    IF a.dot > 0 /\ b.dot <= 0 THEN TRUE
    ELSE IF a.dot <= 0 /\ b.dot > 0 THEN FALSE
    ELSE IF a.dot = 0 THEN b.dot < 0
    ELSE IF b.dot = 0 THEN FALSE
    ELSE LET left == a.dot * a.dot * b.sq
             right == b.dot * b.dot * a.sq
         IN  IF left = right THEN a.dot > b.dot
             ELSE IF a.dot > 0 THEN left > right
             ELSE left < right

\* a >= b as numbers
ScoreAtLeast(a, b) == ~ScoreGreater(b, a)

Scores(q, docs) == [i \in 1..Len(docs) |-> Cosine(q, docs[i])]

\* index i enters an order of smaller indices: behind every index whose score
\* is at least its own
RECURSIVE InsertDescending(_, _, _)
InsertDescending(order, i, scores) ==
    IF order # <<>> /\ ScoreAtLeast(scores[Head(order)], scores[i])
    THEN <<Head(order)>> \o InsertDescending(Tail(order), i, scores)
    ELSE <<i>> \o order

RECURSIVE SortPrefix(_, _)
SortPrefix(scores, n) ==
    IF n = 0 THEN <<>> ELSE InsertDescending(SortPrefix(scores, n - 1), n, scores)

\* index i enters an ascending order behind every index whose score is at
\* most its own
RECURSIVE InsertAscending(_, _, _)
InsertAscending(order, i, scores) ==
    IF order # <<>> /\ ScoreAtLeast(scores[i], scores[Head(order)])
    THEN <<Head(order)>> \o InsertAscending(Tail(order), i, scores)
    ELSE <<i>> \o order

RECURSIVE SortPrefixAscending(_, _)
SortPrefixAscending(scores, n) ==
    IF n = 0 THEN <<>>
    ELSE InsertAscending(SortPrefixAscending(scores, n - 1), n, scores)

\* variant: sorted(..., key=...)[::-1], which reverses the order of ties
SortedAscendingReversed(scores) ==
    LET asc == SortPrefixAscending(scores, Len(scores))
    IN  [k \in 1..Len(asc) |-> asc[Len(asc) + 1 - k]]

\* sorted(range(len(results)), key=lambda i: scores[i], reverse=True)
SortedOrder(scores) == SortPrefix(scores, Len(scores))

\* [results[i] for i in order]
Reorder(results, order) == [k \in 1..Len(order) |-> results[order[k]]]

(***************************************************************************)
(* Response assembly                                                       *)
(***************************************************************************)
Summary(n) ==
    <<"SUMMARY (placeholder): Found ", ToString(n),
      " articles. Replace this with LLM-generated educational summary that cites sources.">>

\* " -- " stands for the em-dash separator of the f-string
Citation(r) ==
    Format(r.title) \o <<" -- ">> \o r.journal \o <<" (">> \o r.year
        \o <<") -- ">> \o r.url

\* variant: the citations are built from the list read backwards
CitationsReversed(results) ==
    [k \in 1..Len(results) |-> Citation(results[Len(results) + 1 - k])]

Citations(results) == [k \in 1..Len(results) |-> Citation(results[k])]

Response(results) ==
    [summary |-> Summary(Len(results)), matches |-> results,
     citations |-> Citations(results)]

(***************************************************************************)
(* State                                                                   *)
(***************************************************************************)
InitLoc ==
    [symptoms  |-> <<>>,      \* req.symptoms.strip()
     failure   |-> None,      \* the exception fetch_europepmc raised
     data      |-> None,      \* the body fetch_europepmc returned
     results   |-> <<>>,
     abstracts |-> <<>>,
     model     |-> None,
     scores    |-> <<>>,
     ranked    |-> FALSE,     \* results was reassigned by the ranking step
     logged    |-> FALSE,     \* logging.exception ran
     status    |-> 0,         \* HTTP status of the response, 0 while none
     detail    |-> <<>>,      \* detail of the error response
     response  |-> None,      \* the returned payload
     visited   |-> {}]        \* pipeline stages entered

PipelineInit ==
    /\ ENABLE_EMBEDDINGS \in BOOLEAN
    /\ EMB_MODEL = None
    /\ EMB_LOADING = FALSE
    /\ pc = [r \in Requests |-> "idle"]
    /\ req = [r \in Requests |-> None]
    /\ loc = [r \in Requests |-> InitLoc]
    /\ running = 0
    /\ loadAttempts = 0
    /\ loadFailed = FALSE

Init ==
    /\ PipelineInit
    /\ hitIn = None
    /\ matchOut = <<>>

(***************************************************************************)
(* query_literature, one action per synchronous step.  A coroutine runs    *)
(* from where the event loop resumes it to its next await or its end.      *)
(***************************************************************************)
\* The request arrives: lines 52-58 up to the await of the search call.
\* Requests are numbered in their order of arrival; req is dropped at the
\* await, as line 58 is the last to read it.
ValidateInput(r, text) ==
    /\ pc[r] = "idle"
    /\ \A earlier \in 1..(r - 1) : pc[earlier] # "idle"
    /\ running = 0
    /\ LET symptoms == Strip(text)
       IN  IF symptoms = <<>>
           THEN /\ pc' = [pc EXCEPT ![r] = "Return"]
                /\ req' = [req EXCEPT ![r] = Some(text)]
                /\ loc' = [loc EXCEPT ![r] =
                       [@ EXCEPT !.status = 400,
                                 !.detail = <<"No symptoms provided">>,
                                 !.visited = {"ValidateInput"}]]
                /\ running' = r
           ELSE /\ pc' = [pc EXCEPT ![r] = "Search"]
                /\ req' = [req EXCEPT ![r] = None]
                /\ loc' = [loc EXCEPT ![r] =
                       [@ EXCEPT !.symptoms = symptoms,
                                 !.visited = {"ValidateInput", "Search"}]]
                /\ running' = 0
    /\ UNCHANGED <<ENABLE_EMBEDDINGS, EMB_MODEL, EMB_LOADING, loadAttempts,
                   loadFailed, mapVars>>

\* variant: no except clause around the search call
SearchFailsUnhandled(r, e) ==
    /\ pc[r] = "Search"
    /\ running = 0
    /\ running' = r
    /\ pc' = [pc EXCEPT ![r] = "Return"]
    /\ loc' = [loc EXCEPT ![r] = [@ EXCEPT !.failure = Some(e), !.status = 500]]
    /\ UNCHANGED <<ENABLE_EMBEDDINGS, EMB_MODEL, EMB_LOADING, req, loadAttempts,
                   loadFailed, mapVars>>

\* the awaited call raises: lines 59-60
SearchFails(r, e) ==
    /\ pc[r] = "Search"
    /\ running = 0
    /\ running' = r
    /\ pc' = [pc EXCEPT ![r] = "Return"]
    /\ loc' = [loc EXCEPT ![r] =
           [@ EXCEPT !.failure = Some(e), !.status = 502, !.detail = Message(e)]]
    /\ UNCHANGED <<ENABLE_EMBEDDINGS, EMB_MODEL, EMB_LOADING, req, loadAttempts,
                   loadFailed, mapVars>>

\* the awaited call returns r.json(): line 58
SearchReturns(r, body) ==
    /\ pc[r] = "Search"
    /\ running = 0
    /\ running' = r
    /\ pc' = [pc EXCEPT ![r] = "Parse"]
    /\ loc' = [loc EXCEPT ![r] = [@ EXCEPT !.data = Some(body)]]
    /\ UNCHANGED <<ENABLE_EMBEDDINGS, EMB_MODEL, EMB_LOADING, req, loadAttempts,
                   loadFailed, mapVars>>

\* lines 62-81; an exception here is caught by nothing and ends the request
\* as an internal server error
Parse(r) ==
    /\ pc[r] = "Parse"
    /\ running = r
    /\ LET parsed == ParseBody(loc[r].data[1])
       IN  IF parsed.ok
           THEN /\ pc' = [pc EXCEPT ![r] = "RankOptional"]
                /\ loc' = [loc EXCEPT ![r] =
                       [@ EXCEPT !.results = parsed.results,
                                 !.abstracts = parsed.abstracts]]
           ELSE /\ pc' = [pc EXCEPT ![r] = "Return"]
                /\ loc' = [loc EXCEPT ![r] = [@ EXCEPT !.status = 500]]
    /\ UNCHANGED <<ENABLE_EMBEDDINGS, EMB_MODEL, EMB_LOADING, req, running,
                   loadAttempts, loadFailed, mapVars>>

\* variant: the flag is not consulted
EmbeddingsAlwaysEnabled == TRUE

\* line 20: the opt-in flag
EmbeddingsEnabled == ENABLE_EMBEDDINGS

\* variant: the guard looks at the loading flag alone
ShouldLoadUnlessLoading == ~EMB_LOADING

\* line 22: the guard of the load
ShouldLoad == EMB_MODEL = None /\ ~EMB_LOADING

\* line 85, get_embedding_model() up to its return or to the start of a load
GetModel(r) ==
    /\ pc[r] = "RankOptional"
    /\ running = r
    /\ IF ~EmbeddingsEnabled
       THEN /\ pc' = [pc EXCEPT ![r] = "Rank"]
            /\ loc' = [loc EXCEPT ![r] =
                   [@ EXCEPT !.model = None, !.visited = @ \cup {"RankOptional"}]]
            /\ UNCHANGED <<EMB_LOADING, loadAttempts>>
       ELSE IF ShouldLoad
       THEN /\ EMB_LOADING' = TRUE
            /\ loadAttempts' = loadAttempts + 1
            /\ pc' = [pc EXCEPT ![r] = "Loading"]
            /\ loc' = [loc EXCEPT ![r] =
                   [@ EXCEPT !.visited = @ \cup {"RankOptional", "Load"}]]
       ELSE /\ pc' = [pc EXCEPT ![r] = "Rank"]
            /\ loc' = [loc EXCEPT ![r] =
                   [@ EXCEPT !.model = EMB_MODEL, !.visited = @ \cup {"RankOptional"}]]
            /\ UNCHANGED <<EMB_LOADING, loadAttempts>>
    /\ UNCHANGED <<ENABLE_EMBEDDINGS, EMB_MODEL, req, running, loadFailed, mapVars>>

\* lines 25-26 complete, then finally and return: lines 31-32
LoadSucceeds(r) ==
    /\ pc[r] = "Loading"
    /\ running = r
    /\ EMB_MODEL' = Some("all-MiniLM-L6-v2")
    /\ EMB_LOADING' = FALSE
    /\ pc' = [pc EXCEPT ![r] = "Rank"]
    /\ loc' = [loc EXCEPT ![r] = [@ EXCEPT !.model = EMB_MODEL']]
    /\ UNCHANGED <<ENABLE_EMBEDDINGS, req, running, loadAttempts, loadFailed, mapVars>>

\* the import or the constructor raises: lines 27-32
LoadFails(r) ==
    /\ pc[r] = "Loading"
    /\ running = r
    /\ EMB_MODEL' = None
    /\ EMB_LOADING' = FALSE
    /\ loadFailed' = TRUE
    /\ pc' = [pc EXCEPT ![r] = "Rank"]
    /\ loc' = [loc EXCEPT ![r] = [@ EXCEPT !.model = EMB_MODEL']]
    /\ UNCHANGED <<ENABLE_EMBEDDINGS, req, running, loadAttempts, mapVars>>

\* line 86
RankingApplies(r) == loc[r].model # None /\ loc[r].abstracts # <<>>

\* line 86 is false
RankSkipped(r) ==
    /\ pc[r] = "Rank"
    /\ running = r
    /\ ~RankingApplies(r)
    /\ pc' = [pc EXCEPT ![r] = "BuildResponse"]
    /\ UNCHANGED <<ENABLE_EMBEDDINGS, EMB_MODEL, EMB_LOADING, req, loc, running,
                   loadAttempts, loadFailed, mapVars>>

\* where lines 87-98 can raise
RankFailures == {"encode query", "encode documents", "import numpy", "score"}

\* variant: the exception of the ranking step is not caught
RankRaisesUncaught(r, where) ==
    /\ pc[r] = "Rank"
    /\ running = r
    /\ loc[r].model # None /\ loc[r].abstracts # <<>>
    /\ pc' = [pc EXCEPT ![r] = "Return"]
    /\ loc' = [loc EXCEPT ![r] = [@ EXCEPT !.status = 500]]
    /\ UNCHANGED <<ENABLE_EMBEDDINGS, EMB_MODEL, EMB_LOADING, req, running,
                   loadAttempts, loadFailed, mapVars>>

\* something in lines 87-98 raises: lines 99-101
RankRaises(r, where) ==
    /\ pc[r] = "Rank"
    /\ running = r
    /\ RankingApplies(r)
    /\ pc' = [pc EXCEPT ![r] = "BuildResponse"]
    /\ loc' = [loc EXCEPT ![r] = [@ EXCEPT !.logged = TRUE]]
    /\ UNCHANGED <<ENABLE_EMBEDDINGS, EMB_MODEL, EMB_LOADING, req, running,
                   loadAttempts, loadFailed, mapVars>>

\* lines 87-98 complete with query_emb = q and doc_embs = docs
RankSorts(r, q, docs) ==
    /\ pc[r] = "Rank"
    /\ running = r
    /\ RankingApplies(r)
    /\ Len(docs) = Len(loc[r].abstracts)
    /\ LET scores == Scores(q, docs)
       IN  loc' = [loc EXCEPT ![r] =
               [@ EXCEPT !.scores = scores,
                         !.results = Reorder(@, SortedOrder(scores)),
                         !.ranked = TRUE]]
    /\ pc' = [pc EXCEPT ![r] = "BuildResponse"]
    /\ UNCHANGED <<ENABLE_EMBEDDINGS, EMB_MODEL, EMB_LOADING, req, running,
                   loadAttempts, loadFailed, mapVars>>

\* lines 106-119
BuildResponse(r) ==
    /\ pc[r] = "BuildResponse"
    /\ running = r
    /\ pc' = [pc EXCEPT ![r] = "Return"]
    /\ loc' = [loc EXCEPT ![r] =
           [@ EXCEPT !.response = Some(Response(loc[r].results)),
                     !.status = 200,
                     !.visited = @ \cup {"BuildResponse"}]]
    /\ UNCHANGED <<ENABLE_EMBEDDINGS, EMB_MODEL, EMB_LOADING, req, running,
                   loadAttempts, loadFailed, mapVars>>

\* the coroutine ends (return or exception): its frame is dropped and the
\* event loop is free to resume another one
Finish(r) ==
    /\ pc[r] = "Return"
    /\ running = r
    /\ running' = 0
    /\ pc' = [pc EXCEPT ![r] = "done"]
    /\ req' = [req EXCEPT ![r] = None]
    /\ loc' = [loc EXCEPT ![r] = InitLoc]
    /\ UNCHANGED <<ENABLE_EMBEDDINGS, EMB_MODEL, EMB_LOADING, loadAttempts,
                   loadFailed, mapVars>>

Arrives == \E r \in Requests, text \in SymptomTexts : ValidateInput(r, text)
SearchError == \E r \in Requests, e \in SearchFailures : SearchFails(r, e)
SearchOk == \E r \in Requests, body \in Bodies : SearchReturns(r, body)
ParseStep == \E r \in Requests : Parse(r)
GetModelStep == \E r \in Requests : GetModel(r)
LoadOk == \E r \in Requests : LoadSucceeds(r)
LoadError == \E r \in Requests : LoadFails(r)
RankSkip == \E r \in Requests : RankSkipped(r)
RankError == \E r \in Requests, where \in RankFailures : RankRaises(r, where)
RankOk ==
    \E r \in Requests, q \in QueryEmbeddings :
        \E docs \in [1..Len(loc[r].abstracts) -> DocEmbeddings] : RankSorts(r, q, docs)
Build == \E r \in Requests : BuildResponse(r)
Ends == \E r \in Requests : Finish(r)

Next ==
    \/ Arrives
    \/ SearchError
    \/ SearchOk
    \/ ParseStep
    \/ GetModelStep
    \/ LoadOk
    \/ LoadError
    \/ RankSkip
    \/ RankError
    \/ RankOk
    \/ Build
    \/ Ends

Spec == Init /\ [][Next]_vars

(***************************************************************************)
(* The hit mapping on its own: one hit in, one match record out.           *)
(***************************************************************************)
\* an abstract of n characters
AbstractOfLen(n, period) ==
    [i \in 1..n |-> IF i % period = 0 THEN "b" ELSE "a"]

AbstractLengths == (0..Margin) \cup ((SnippetLen - Margin)..(SnippetLen + Margin))

MappedHits ==
    {NullHit, HitFull, HitBare}
        \cup {[NullHit EXCEPT !.abstractText = Some(AbstractOfLen(n, period)),
                              !.title = Some(<<"T">>)] :
                 n \in AbstractLengths, period \in {2, 3, 5}}

\* the loop takes its next hit
NextHit ==
    /\ hitIn = None \/ matchOut # <<>>
    /\ hitIn' \in {Some(hit) : hit \in MappedHits}
    /\ matchOut' = <<>>
    /\ UNCHANGED pipelineVars

\* one pass of the loop body, lines 65-80
MapHit ==
    /\ hitIn # None
    /\ matchOut = <<>>
    /\ matchOut' = <<MatchRecord(hitIn[1])>>
    /\ UNCHANGED <<hitIn, pipelineVars>>

NextMap == NextHit \/ MapHit

SpecMap == Init /\ [][NextMap]_vars

(***************************************************************************)
(* Properties                                                              *)
(***************************************************************************)
\* what the parsing of the body this request received produced
SearchHits(r) == ParseBody(loc[r].data[1]).results

GotBody(r) == loc[r].data # None

IsBlank(text) == \A i \in 1..Len(text) : text[i] \in Whitespace

RankStages == {"RankOptional", "Loading", "Rank", "BuildResponse"}

\* some step of request r's ranking or response assembly can be taken
CanProceed(r) ==
    ENABLED (\/ GetModel(r) \/ LoadSucceeds(r) \/ LoadFails(r) \/ RankSkipped(r)
             \/ (\E where \in RankFailures : RankRaises(r, where))
             \/ BuildResponse(r))

\* C1: a request that got a well-formed result list is never failed by the
\* ranking step: while it is in the ranking step or in response assembly it
\* has no error and can go on, it returns a success payload, and if the
\* ranking did not complete the matches are in the search order.
C1_RankingNeverFails ==
    \A r \in Requests :
        (GotBody(r) /\ loc[r].data[1] \in WellFormedBodies) =>
            /\ pc[r] \in RankStages => (loc[r].status = 0 /\ CanProceed(r))
            /\ pc[r] = "Return" =>
                /\ loc[r].status = 200
                /\ loc[r].response # None
                /\ "BuildResponse" \in loc[r].visited
                /\ ~loc[r].ranked => loc[r].response[1].matches = SearchHits(r)

\* a request whose ranking raised has returned two matches all the same
C1_Witness ==
    \E r \in Requests :
        /\ pc[r] = "Return"
        /\ loc[r].logged
        /\ loc[r].status = 200
        /\ Len(loc[r].response[1].matches) = 2

\* C2: a request whose search call failed ends with 502 and the failure's
\* message as detail; it has no internal error, and neither the ranking step
\* nor response assembly has run for it.
C2_SearchFailureIs502 ==
    \A r \in Requests :
        loc[r].failure # None =>
            /\ pc[r] = "Return"
            /\ loc[r].status = 502
            /\ loc[r].detail = <<"upstream: ", loc[r].failure[1]>>
            /\ loc[r].visited \cap {"RankOptional", "Load", "BuildResponse"} = {}
            /\ loc[r].response = None
            /\ ~loc[r].ranked /\ ~loc[r].logged

C2_Witness ==
    \E r \in Requests :
        /\ loc[r].failure = Some("ReadTimeout")
        /\ loc[r].status = 502
        /\ pc[r] = "Return"

\* C3: the arrival of a request whose symptoms are empty or whitespace-only
\* ends in 400 "No symptoms provided" straight from ValidateInput, with no
\* search call issued and no model load attempted; and no request with that
\* response has entered any later stage.
C3_BlankSymptomsIs400 ==
    /\ [][\A r \in Requests : \A text \in SymptomTexts :
            (IsBlank(text) /\ ValidateInput(r, text)) =>
                /\ pc'[r] = "Return"
                /\ loc'[r].status = 400
                /\ loc'[r].detail = <<"No symptoms provided">>
                /\ loc'[r].visited = {"ValidateInput"}
                /\ loadAttempts' = loadAttempts
                /\ EMB_LOADING' = EMB_LOADING]_vars
    /\ [](\A r \in Requests :
            loc[r].status = 400 =>
                /\ pc[r] = "Return"
                /\ req[r] # None /\ IsBlank(req[r][1])
                /\ loc[r].visited = {"ValidateInput"}
                /\ loc[r].data = None /\ loc[r].failure = None)

\* a whitespace-only, non-empty text was refused
C3_Witness ==
    \E r \in Requests :
        /\ req[r] = Some(<<" ", "\t", "\n">>)
        /\ loc[r].status = 400
        /\ loc[r].detail = <<"No symptoms provided">>

\* C4: a model load is attempted at most once in the process, and after a
\* failed load no load is in progress again.
C4_LoadAttemptedAtMostOnce ==
    /\ loadAttempts <= 1
    /\ loadFailed => \A r \in Requests : pc[r] # "Loading"

\* C5: a request that got a body whose result list is absent or malformed
\* returns a success payload with zero matches and zero citations.
C5_MalformedBodyIsEmptySuccess ==
    \A r \in Requests :
        (pc[r] = "Return" /\ GotBody(r) /\ loc[r].data[1] \in MalformedBodies) =>
            /\ loc[r].status = 200
            /\ loc[r].response # None
            /\ loc[r].response[1].matches = <<>>
            /\ loc[r].response[1].citations = <<>>

\* C6: whatever the interleaving of the requests, at most one model load is
\* in progress at a time, a load runs only while EMB_MODEL is unset and the
\* loading flag is up, and the flag is up only during a load.
C6_NoConcurrentDoubleLoad ==
    /\ Cardinality({r \in Requests : pc[r] = "Loading"}) <= 1
    /\ \A r \in Requests : pc[r] = "Loading" => (EMB_MODEL = None /\ EMB_LOADING)
    /\ EMB_LOADING => \E r \in Requests : pc[r] = "Loading"

\* a load is in progress while another request is suspended at the await of
\* its search call
C6_Witness ==
    \E r1, r2 \in Requests :
        /\ pc[r1] = "Loading"
        /\ pc[r2] = "Search"

\* the one-to-one maps of 1..n onto itself
OrdersOf(n) ==
    {f \in [1..n -> 1..n] : \A i, j \in 1..n : f[i] = f[j] => i = j}

\* C7: when the ranking completed, the matches are the search hits taken in
\* an order that is descending in score and that keeps hits of equal score
\* in their search order; the returned payload carries them in that order.
C7_RankedDescendingStable ==
    \A r \in Requests :
        loc[r].ranked =>
            /\ Len(loc[r].scores) = Len(SearchHits(r))
            /\ \E order \in OrdersOf(Len(SearchHits(r))) :
                /\ loc[r].results = [k \in 1..Len(order) |-> SearchHits(r)[order[k]]]
                /\ \A i, j \in 1..Len(order) :
                       i < j =>
                           /\ ScoreAtLeast(loc[r].scores[order[i]], loc[r].scores[order[j]])
                           /\ ScoreAtLeast(loc[r].scores[order[j]], loc[r].scores[order[i]])
                                  => order[i] < order[j]
            /\ loc[r].response # None => loc[r].response[1].matches = loc[r].results

\* a later hit with a strictly higher score is returned first
C7_Witness ==
    \E r \in Requests :
        /\ loc[r].ranked
        /\ loc[r].status = 200
        /\ Len(loc[r].scores) = 2
        /\ ScoreGreater(loc[r].scores[2], loc[r].scores[1])
        /\ SearchHits(r)[1] # SearchHits(r)[2]
        /\ loc[r].response[1].matches = <<SearchHits(r)[2], SearchHits(r)[1]>>

\* C8: when the flag is not set, the model is not available or there is no
\* abstract, a successful response carries the matches in the search order;
\* and when the flag is not set no load is ever attempted.
C8_UnrankedKeepsSearchOrder ==
    /\ \A r \in Requests :
           (/\ loc[r].status = 200
            /\ \/ ~ENABLE_EMBEDDINGS
               \/ loc[r].model = None
               \/ loc[r].abstracts = <<>>) =>
               /\ ~loc[r].ranked
               /\ loc[r].response[1].matches = SearchHits(r)
    /\ ~ENABLE_EMBEDDINGS =>
           /\ loadAttempts = 0
           /\ EMB_MODEL = None /\ ~EMB_LOADING
           /\ \A r \in Requests : pc[r] # "Loading" /\ "Load" \notin loc[r].visited

\* the flag is set, the load failed, and two distinct hits came back in order
C8_Witness ==
    \E r \in Requests :
        /\ ENABLE_EMBEDDINGS
        /\ "Load" \in loc[r].visited
        /\ loc[r].model = None
        /\ loc[r].status = 200
        /\ Len(loc[r].response[1].matches) = 2
        /\ loc[r].response[1].matches[1] # loc[r].response[1].matches[2]

\* the number of hits in the result list of the body request r received
UpstreamHitCount(r) ==
    LET data == loc[r].data[1]
    IN  IF data.resultList.state = "map" /\ data.resultList.result.state = "list"
        THEN Len(data.resultList.result.items)
        ELSE 0

\* the citation string of a match
CitationOf(m) ==
    (IF m.title = None THEN <<"None">> ELSE m.title[1])
        \o <<" -- ">> \o m.journal \o <<" (">> \o m.year \o <<") -- ">> \o m.url

\* C9: every successful response has as many matches as the upstream result
\* list has hits and as many citations as matches, citation k is the
\* citation of match k, and the summary carries that count.
C9_ResponseCounts ==
    \A r \in Requests :
        loc[r].status = 200 =>
            LET resp == loc[r].response[1]
            IN  /\ Len(resp.matches) = UpstreamHitCount(r)
                /\ Len(resp.citations) = Len(resp.matches)
                /\ \A k \in 1..Len(resp.matches) :
                       resp.citations[k] = CitationOf(resp.matches[k])
                /\ resp.summary[2] = ToString(UpstreamHitCount(r))

\* a response whose two matches were reordered by the ranking
C9_Witness ==
    \E r \in Requests :
        /\ loc[r].status = 200
        /\ loc[r].ranked
        /\ Len(loc[r].response[1].matches) = 2
        /\ loc[r].response[1].matches # SearchHits(r)
        /\ loc[r].response[1].summary[2] = "2"

\* the abstract the mapped hit carries
AbstractIn == IF hitIn[1].abstractText = None THEN <<>> ELSE hitIn[1].abstractText[1]

\* C10: the snippet of a match record is the first 400 characters of the
\* abstract followed by the marker "..." when the abstract is longer than 400
\* characters, and the abstract unchanged otherwise (an absent abstract being
\* the empty string).
C10_SnippetOfAbstract ==
    matchOut # <<>> =>
        /\ matchOut[1].abstract = AbstractIn
        /\ IF Len(AbstractIn) > 400
           THEN matchOut[1].snippet = [i \in 1..403 |-> IF i > 400 THEN "." ELSE AbstractIn[i]]
           ELSE matchOut[1].snippet = AbstractIn

\* an abstract of 401 characters was cut to 400 and marked
C10_Witness ==
    /\ matchOut # <<>>
    /\ Len(AbstractIn) = 401
    /\ Len(matchOut[1].snippet) = 403
    /\ matchOut[1].snippet[401] = "." /\ matchOut[1].snippet[403] = "."
    /\ matchOut[1].snippet[400] = AbstractIn[400]

====
